---- MODULE Spec2Model ----
(***************************************************************************)
(* A model of pybinmap: DataItem (dataitems.py), BinMap (binmap.py) and    *)
(* the container operations the tests use whose code is not part of the    *)
(* source tree (fill_unmapped, get_spec, add_from_spec), which are         *)
(* modelled from the specification text.                                   *)
(***************************************************************************)
EXTENDS Integers, Sequences, FiniteSets, TLC

VARIABLES
    map_list,      \* BinMap._map_list: the fields, kept sorted by start
    map_dict,      \* BinMap._map_dict: name -> id of the indexed field
    unmapped_cnt,  \* the container's counter for synthetic field names
    n_items,       \* number of DataItem objects created so far (object identity)
    err,           \* the exception the last call raised, "none" if it returned
    last           \* the last call and its arguments

vars == <<map_list, map_dict, unmapped_cnt, n_items, err, last>>

(***************************************************************************)
(* Bounds of the model.                                                    *)
(***************************************************************************)
MaxFields == 3
MaxFills == 2
MaxDataFields == 3
MaxTypeFields == 1

(***************************************************************************)
(* Python values.  Every value is a record of one shape: t is the Python   *)
(* type, n the number of an int or bool, s the bytes of a bytes object or  *)
(* the code points of a str.                                               *)
(***************************************************************************)
None == [t |-> "None", n |-> 0, s |-> <<>>]
PyBytes(b) == [t |-> "bytes", n |-> 0, s |-> b]
PyStr(cps) == [t |-> "str", n |-> 0, s |-> cps]
PyInt(i) == [t |-> "int", n |-> i, s |-> <<>>]
PyBool(b) == [t |-> "bool", n |-> IF b THEN 1 ELSE 0, s |-> <<>>]

\* dict.update(other): the keys of other win
DictUpdate(d, other) ==
    [k \in (DOMAIN d) \cup (DOMAIN other) |->
        IF k \in DOMAIN other THEN other[k] ELSE d[k]]

\* dict.get(key, default)
DictGet(d, key, default) == IF key \in DOMAIN d THEN d[key] ELSE default

\* reversed(seq)
Reversed(s) == [i \in 1..Len(s) |-> s[Len(s) + 1 - i]]

(***************************************************************************)
(* DataItem: derived attributes.                                           *)
(***************************************************************************)
\* mutant of End: the address behind the last bit
EndExclusive(f) == f.start + f.length

\* DataItem.end
End(f) == f.start + f.length - 1

(***************************************************************************)
(* Bit extraction.                                                         *)
(***************************************************************************)
\* x & (1 << bit_pos)
AndBit(x, bit_pos) == ((x \div (2 ^ bit_pos)) % 2) * (2 ^ bit_pos)

\* DataItem.get_bit: data is a sequence of bytes, indexed from 0 in Python
get_bit(data, abs_bit) ==
    LET byte_pos == abs_bit \div 8
        bit_pos == abs_bit % 8
    IN  AndBit(data[byte_pos + 1], bit_pos) \div (2 ^ bit_pos)

\* mutant of extract_loop: the byte that is not full at the end is not appended
RECURSIVE extract_loop_no_tail(_, _, _, _, _, _)
extract_loop_no_tail(data, addr, stop, bit_count, byte_val, bytelist) ==
    IF addr >= stop
    THEN bytelist
    ELSE LET bit_val == get_bit(data, addr)
             bv == byte_val + bit_val * (2 ^ (bit_count % 8))
             bc == bit_count + 1
         IN  IF bc = 8
             THEN extract_loop_no_tail(data, addr + 1, stop, 0, 0, Append(bytelist, bv))
             ELSE extract_loop_no_tail(data, addr + 1, stop, bc, bv, bytelist)

\* the loop of DataItem.extract_raw_value, from address addr up to stop - 1
RECURSIVE extract_loop(_, _, _, _, _, _)
extract_loop(data, addr, stop, bit_count, byte_val, bytelist) ==
    IF addr >= stop
    THEN IF bit_count # 0 THEN Append(bytelist, byte_val) ELSE bytelist
    ELSE LET bit_val == get_bit(data, addr)
             bv == byte_val + bit_val * (2 ^ (bit_count % 8))
             bc == bit_count + 1
         IN  IF bc = 8
             THEN extract_loop(data, addr + 1, stop, 0, 0, Append(bytelist, bv))
             ELSE extract_loop(data, addr + 1, stop, bc, bv, bytelist)

\* DataItem.extract_raw_value
extract_raw_value(f, data) == extract_loop(data, f.start, End(f) + 1, 0, 0, <<>>)

(***************************************************************************)
(* calc_value of each DataItem class.  A result is [ok, v]: ok is FALSE    *)
(* when the method raises.                                                 *)
(***************************************************************************)
\* bytes.decode('ascii'): every byte below 0x80 is its code point, any other raises
DecodeAscii(raw) ==
    IF \E i \in 1..Len(raw) : raw[i] >= 128
    THEN [ok |-> FALSE, v |-> None]
    ELSE [ok |-> TRUE, v |-> PyStr(raw)]

\* UIntDataItem.calc_value: the accumulation over enumerate(raw_val)
RECURSIVE uint_sum(_, _)
uint_sum(raw_val, byte_pos) ==
    IF byte_pos >= Len(raw_val) THEN 0
    ELSE (2 ^ (8 * byte_pos)) * raw_val[byte_pos + 1] + uint_sum(raw_val, byte_pos + 1)

UIntCalcValue(endian, raw) ==
    LET raw_val == IF endian = "big" THEN Reversed(raw) ELSE raw
    IN  uint_sum(raw_val, 0)

\* calc_value, dispatched on the class of the item
calc_value(f, raw) ==
    CASE f.cls = "RawDataItem" -> [ok |-> TRUE, v |-> PyBytes(raw)]
      [] f.cls = "CharDataItem" -> DecodeAscii(raw)
      [] f.cls = "UIntDataItem" -> [ok |-> TRUE, v |-> PyInt(UIntCalcValue(f.endian, raw))]
      [] f.cls = "BoolDataItem" -> [ok |-> TRUE, v |-> PyBool(UIntCalcValue(f.endian, raw) # 0)]

(***************************************************************************)
(* DataItem objects.  An item is a record: id is the identity of the       *)
(* object (the n-th item created), args is DataItem._args, data is         *)
(* DataItem._data (None until a set_data passes the length check), and     *)
(* interpreted records that some set_data call on the item has returned    *)
(* without raising.                                                        *)
(***************************************************************************)
Required == {"name", "start", "length"}

\* DataItem.__init__, after the subclass __init__ (its result is [err, item])
NewItem(cls, kwargs, id) ==
    IF ~(Required \subseteq DOMAIN kwargs)
    THEN [err |-> "KeyError", item |-> None]
    ELSE LET endian == IF cls \in {"UIntDataItem", "BoolDataItem"}
                       THEN DictGet(kwargs, "endian", "little") ELSE ""
             encoding == IF cls = "CharDataItem"
                         THEN DictGet(kwargs, "encoding", "ascii") ELSE ""
         IN  IF cls \in {"UIntDataItem", "BoolDataItem"} /\ endian \notin {"little", "big"}
             THEN [err |-> "ValueError", item |-> None]
             ELSE [err |-> "none",
                   item |-> [id |-> id, cls |-> cls, args |-> kwargs,
                             name |-> kwargs["name"], start |-> kwargs["start"],
                             length |-> kwargs["length"],
                             endian |-> endian, encoding |-> encoding,
                             data |-> None, raw_value |-> None, value |-> None,
                             interpreted |-> FALSE]]

\* DataItem.set_data: the result is [err, item]
ItemSetData(f, data) ==
    LET endbyte == End(f) \div 8
    IN  IF Len(data) < endbyte + 1
        THEN [err |-> "BufferTooShortError", item |-> f]
        ELSE LET raw == extract_raw_value(f, data)
                 f1 == [f EXCEPT !.data = PyBytes(data), !.raw_value = PyBytes(raw)]
                 cv == calc_value(f1, raw)
             IN  IF cv.ok
                 THEN [err |-> "none",
                       item |-> [f1 EXCEPT !.value = cv.v, !.interpreted = TRUE]]
                 ELSE [err |-> "DecodeError", item |-> f1]

\* DataItem.raw_value and DataItem.value: [err, v]
ItemRawValue(f) ==
    IF f.data = None THEN [err |-> "UnsetDataError", v |-> None]
    ELSE [err |-> "none", v |-> f.raw_value]

ItemValue(f) ==
    IF f.data = None THEN [err |-> "UnsetDataError", v |-> None]
    ELSE [err |-> "none", v |-> f.value]

\* DataItem.spec
ItemSpec(f) == f.args

(***************************************************************************)
(* BinMap.  A container is a record of the four container variables.       *)
(***************************************************************************)
EmptyDict == [k \in {} |-> 0]

\* BinMap._type_tbl
type_tbl ==
    [raw    |-> [cls |-> "RawDataItem"],
     uint   |-> [cls |-> "UIntDataItem"],
     uint8  |-> [cls |-> "UIntDataItem", length |-> 8],
     uint16 |-> [cls |-> "UIntDataItem", length |-> 16],
     uint32 |-> [cls |-> "UIntDataItem", length |-> 32],
     uint64 |-> [cls |-> "UIntDataItem", length |-> 64],
     ascii  |-> [cls |-> "CharDataItem", encoding |-> "ascii"],
     utf8   |-> [cls |-> "CharDataItem", encoding |-> "utf-8"],
     bool   |-> [cls |-> "BoolDataItem"],
     bool1  |-> [cls |-> "BoolDataItem", length |-> 1],
     bool8  |-> [cls |-> "BoolDataItem", length |-> 8]]

\* BinMap.__init__
NewBinMap == [map_list |-> <<>>, map_dict |-> EmptyDict, unmapped_cnt |-> 0, n_items |-> 0]

\* mutant of InsertByStart: an item goes before the items of equal start
RECURSIVE InsertBeforeEqual(_, _)
InsertBeforeEqual(sorted, bd) ==
    IF sorted = <<>> THEN <<bd>>
    ELSE IF Head(sorted).start < bd.start
         THEN <<Head(sorted)>> \o InsertBeforeEqual(Tail(sorted), bd)
         ELSE <<bd>> \o sorted

\* list.sort(key=start) is stable: an item goes behind every item whose start is
\* not greater than its own
RECURSIVE InsertByStart(_, _)
InsertByStart(sorted, bd) ==
    IF sorted = <<>> THEN <<bd>>
    ELSE IF Head(sorted).start <= bd.start
         THEN <<Head(sorted)>> \o InsertByStart(Tail(sorted), bd)
         ELSE <<bd>> \o sorted

RECURSIVE SortByStart(_)
SortByStart(l) ==
    IF l = <<>> THEN <<>>
    ELSE InsertByStart(SortByStart(SubSeq(l, 1, Len(l) - 1)), l[Len(l)])

\* mutant of add_bd: a field of the same name is replaced in the list too
add_bd_replacing(c, bd) ==
    [c EXCEPT !.map_dict = DictUpdate(c.map_dict, [k \in {bd.name} |-> bd.id]),
              !.map_list = SortByStart(Append(
                               SelectSeq(c.map_list, LAMBDA x : x.name # bd.name), bd)),
              !.n_items = c.n_items + 1]

\* BinMap._add_bd
add_bd(c, bd) ==
    [c EXCEPT !.map_dict = DictUpdate(c.map_dict, [k \in {bd.name} |-> bd.id]),
              !.map_list = SortByStart(Append(c.map_list, bd)),
              !.n_items = c.n_items + 1]

\* mutant of add: the parameters of the caller win over those of the registry
add_caller_wins(c, call) ==
    IF "dt" \notin DOMAIN call THEN [err |-> "TypeError", c |-> c]
    ELSE LET dt == call["dt"]
             kwargs == [k \in (DOMAIN call) \ {"dt"} |-> call[k]]
         IN  IF dt \notin DOMAIN type_tbl THEN [err |-> "KeyError", c |-> c]
             ELSE LET spec == type_tbl[dt]
                      r == NewItem(spec.cls, DictUpdate(spec, kwargs), c.n_items + 1)
                  IN  IF r.err # "none" THEN [err |-> r.err, c |-> c]
                      ELSE [err |-> "none", c |-> add_bd(c, r.item)]

\* BinMap.add, called as add(**call): the result is [err, c]
add(c, call) ==
    IF "dt" \notin DOMAIN call THEN [err |-> "TypeError", c |-> c]
    ELSE LET dt == call["dt"]
             kwargs == [k \in (DOMAIN call) \ {"dt"} |-> call[k]]
         IN  IF dt \notin DOMAIN type_tbl THEN [err |-> "KeyError", c |-> c]
             ELSE LET spec == type_tbl[dt]
                      r == NewItem(spec.cls, DictUpdate(kwargs, spec), c.n_items + 1)
                  IN  IF r.err # "none" THEN [err |-> r.err, c |-> c]
                      ELSE [err |-> "none", c |-> add_bd(c, r.item)]

\* mutant of set_data_loop: an item that raises is skipped and the loop goes on
RECURSIVE set_data_loop_skipping(_, _, _)
set_data_loop_skipping(l, i, data) ==
    IF i > Len(l) THEN [err |-> "none", at |-> 0, map_list |-> l]
    ELSE LET r == ItemSetData(l[i], data)
             l1 == [l EXCEPT ![i] = r.item]
             rest == set_data_loop_skipping(l1, i + 1, data)
         IN  IF r.err # "none" THEN [err |-> r.err, at |-> i, map_list |-> rest.map_list]
             ELSE rest

\* BinMap.set_data: the loop over _map_list from position i; [err, at, map_list]
RECURSIVE set_data_loop(_, _, _)
set_data_loop(l, i, data) ==
    IF i > Len(l) THEN [err |-> "none", at |-> 0, map_list |-> l]
    ELSE LET r == ItemSetData(l[i], data)
             l1 == [l EXCEPT ![i] = r.item]
         IN  IF r.err # "none" THEN [err |-> r.err, at |-> i, map_list |-> l1]
             ELSE set_data_loop(l1, i + 1, data)

set_data(c, data) ==
    LET r == set_data_loop(c.map_list, 1, data)
    IN  [err |-> r.err, at |-> r.at, c |-> [c EXCEPT !.map_list = r.map_list]]

\* the item a reference held by _map_dict points to
ItemById(l, id) == l[CHOOSE i \in 1..Len(l) : l[i].id = id]

\* BinMap.get_value: [err, v]
get_value(c, name) ==
    IF name \notin DOMAIN c.map_dict THEN [err |-> "KeyError", v |-> None]
    ELSE ItemValue(ItemById(c.map_list, c.map_dict[name]))

(***************************************************************************)
(* Container operations modelled from the specification text: their code   *)
(* is not part of the source tree.                                         *)
(***************************************************************************)
NoEnd == -1

\* "unmapped_" followed by the counter, zero-padded to 3 digits
UnmappedName(cnt) ==
    "unmapped_" \o (IF cnt < 10 THEN "00" ELSE IF cnt < 100 THEN "0" ELSE "") \o ToString(cnt)

\* the gaps of a sorted field sequence l, in the order they are filled:
\* the leading gap, the gaps between consecutive fields, the trailing gap
LeadingGap(l) ==
    IF l[1].start > 0 THEN <<[start |-> 0, end |-> l[1].start - 1]>> ELSE <<>>

RECURSIVE InnerGaps(_, _)
InnerGaps(l, i) ==
    IF i >= Len(l) THEN <<>>
    ELSE (IF l[i + 1].start > End(l[i]) + 1
          THEN <<[start |-> End(l[i]) + 1, end |-> l[i + 1].start - 1]>>
          ELSE <<>>) \o InnerGaps(l, i + 1)

TrailingGap(l, end_addr) ==
    IF end_addr # NoEnd /\ end_addr > End(l[Len(l)])
    THEN <<[start |-> End(l[Len(l)]) + 1, end |-> end_addr]>>
    ELSE <<>>

Gaps(l, end_addr) == LeadingGap(l) \o InnerGaps(l, 1) \o TrailingGap(l, end_addr)

\* mutant of FillGaps: the counter is not advanced between the fields of a call
RECURSIVE FillGapsSameNumber(_, _)
FillGapsSameNumber(c, gaps) ==
    IF gaps = <<>> THEN [c EXCEPT !.unmapped_cnt = c.unmapped_cnt + 1]
    ELSE LET g == Head(gaps)
             r == add(c, [dt |-> "raw", name |-> UnmappedName(c.unmapped_cnt),
                          start |-> g.start, length |-> g.end - g.start + 1])
         IN  FillGapsSameNumber(r.c, Tail(gaps))

\* one synthetic raw field per gap, named by the container's counter
RECURSIVE FillGaps(_, _)
FillGaps(c, gaps) ==
    IF gaps = <<>> THEN c
    ELSE LET g == Head(gaps)
             r == add(c, [dt |-> "raw", name |-> UnmappedName(c.unmapped_cnt),
                          start |-> g.start, length |-> g.end - g.start + 1])
         IN  FillGaps([r.c EXCEPT !.unmapped_cnt = c.unmapped_cnt + 1], Tail(gaps))

\* fill_unmapped(end_addr): [err, c]
fill_unmapped(c, end_addr) ==
    IF c.map_list = <<>> THEN [err |-> "EmptyContainerError", c |-> c]
    ELSE [err |-> "none", c |-> FillGaps(c, Gaps(c.map_list, end_addr))]

\* get_spec(): the construction parameters of every field, in list order
get_spec(c) == [i \in 1..Len(c.map_list) |-> ItemSpec(c.map_list[i])]

\* add_from_spec(descriptors): add(**d) for each, stopping where one raises
RECURSIVE add_from_spec(_, _)
add_from_spec(c, descriptors) ==
    IF descriptors = <<>> THEN [err |-> "none", c |-> c]
    ELSE LET r == add(c, Head(descriptors))
         IN  IF r.err # "none" THEN r ELSE add_from_spec(r.c, Tail(descriptors))

\* ordered iteration: the (name, value) pairs in list order; reading a value may raise
Pairs(c) ==
    [i \in 1..Len(c.map_list) |->
        [name |-> c.map_list[i].name, value |-> ItemValue(c.map_list[i])]]

(***************************************************************************)
(* The container under test and the calls made on it.                      *)
(***************************************************************************)
Container ==
    [map_list |-> map_list, map_dict |-> map_dict,
     unmapped_cnt |-> unmapped_cnt, n_items |-> n_items]

Becomes(c) ==
    /\ map_list' = c.map_list
    /\ map_dict' = c.map_dict
    /\ unmapped_cnt' = c.unmapped_cnt
    /\ n_items' = c.n_items

Called(op, call, data, end_addr, at) ==
    [op |-> op, call |-> call, data |-> data, end_addr |-> end_addr, at |-> at]

\* fields the caller added: every item but the synthetic ones
UserFields == n_items - unmapped_cnt

Init ==
    /\ map_list = NewBinMap.map_list
    /\ map_dict = NewBinMap.map_dict
    /\ unmapped_cnt = NewBinMap.unmapped_cnt
    /\ n_items = NewBinMap.n_items
    /\ err = "none"
    /\ last = Called("init", EmptyDict, <<>>, NoEnd, 0)

\* binmap.add(**call), while fewer than max fields were added by the caller
Add(call, max) ==
    /\ UserFields < max
    /\ LET r == add(Container, call)
       IN  /\ Becomes(r.c)
           /\ err' = r.err
    /\ last' = Called("add", call, <<>>, NoEnd, 0)

\* binmap.set_data(data)
SetData(data) ==
    LET r == set_data(Container, data)
    IN  /\ Becomes(r.c)
        /\ err' = r.err
        /\ last' = Called("set_data", EmptyDict, data, NoEnd, r.at)

\* binmap.fill_unmapped(end_addr=end_addr), at most MaxFills synthetic fields
FillUnmapped(end_addr) ==
    /\ unmapped_cnt < MaxFills
    /\ LET r == fill_unmapped(Container, end_addr)
       IN  /\ Becomes(r.c)
           /\ err' = r.err
    /\ last' = Called("fill_unmapped", EmptyDict, <<>>, end_addr, 0)

(***************************************************************************)
(* Layout specification: fields at several addresses, with duplicate       *)
(* names, equal starts, gaps, adjacent and overlapping ranges, and the     *)
(* three fields of the test suite (test_binmap.py, _get_default_binmap).   *)
(***************************************************************************)
Names == {"a", "b"}
Starts == {0, 8}
Lengths == {8}

TestCalls ==
    {[dt |-> "bool", name |-> "enabled", start |-> 1, length |-> 1],
     [dt |-> "uint", name |-> "testval", start |-> 8, length |-> 8],
     [dt |-> "ascii", name |-> "answer", start |-> 32, length |-> 16]}

BadCalls == {[dt |-> "raw", name |-> "a", start |-> 0]}

Calls == [dt : {"raw"}, name : Names, start : Starts, length : Lengths]
         \cup TestCalls \cup BadCalls

EndAddrs == {NoEnd, 20, 800}

Next ==
    \/ \E call \in Calls : Add(call, MaxFields)
    \/ \E end_addr \in EndAddrs : FillUnmapped(end_addr)

Spec == Init /\ [][Next]_vars

(***************************************************************************)
(* Data specification: raw and text fields of one or two bytes, buffers     *)
(* shorter than the fields need and buffers that are not ASCII.            *)
(***************************************************************************)
DataCalls == [dt : {"raw", "ascii"}, name : {"a"}, start : {0, 8}, length : {8, 16}]

DataBuffers == {<<65>>, <<200>>, <<66, 67>>}

NextData ==
    \/ \E call \in DataCalls : Add(call, MaxDataFields)
    \/ \E data \in DataBuffers : SetData(data)

SpecData == Init /\ [][NextData]_vars

(***************************************************************************)
(* Type specification: every type tag, with and without the parameters     *)
(* the registry fixes, both byte orders, fields that start inside a byte   *)
(* and whose length is no multiple of 8, over buffers that hold packed     *)
(* unsigned integers.                                                      *)
(***************************************************************************)
TypeStarts == {0, 3}
TypeLengths == {12, 16}
FixedTags == {"uint8", "uint16", "uint32", "uint64", "bool1", "bool8"}
CharTags == {"ascii", "utf8"}
Endians == {"little", "big"}

TypeCalls ==
    [dt : {"uint"}, name : {"v"}, start : TypeStarts, length : TypeLengths,
     endian : Endians]
    \cup [dt : {"raw", "bool"}, name : {"v"}, start : TypeStarts, length : {12}]
    \cup [dt : {"bool"}, name : {"v"}, start : {0}, length : {12}, endian : {"big"}]
    \cup [dt : FixedTags, name : {"v"}, start : {0}]
    \cup [dt : FixedTags, name : {"v"}, start : {0}, length : {12}]
    \cup [dt : {"uint8", "bool1"}, name : {"v"}, start : {3}]
    \cup [dt : {"uint16"}, name : {"v"}, start : {0}, endian : {"big"}]
    \cup [dt : CharTags, name : {"v"}, start : TypeStarts, length : {8}]
    \cup [dt : CharTags, name : {"v"}, start : {0}, length : {8}, encoding : {"latin-1"}]
    \cup {[dt |-> "nosuch", name |-> "v", start |-> 0, length |-> 8],
          [dt |-> "uint", name |-> "v", start |-> 0, length |-> 8, endian |-> "middle"],
          [name |-> "v", start |-> 0, length |-> 8]}

\* int.to_bytes(n, endian)[k] of an unsigned integer v
ToBytesAt(v, n, endian, k) ==
    IF endian = "little" THEN (v \div (256 ^ k)) % 256
    ELSE (v \div (256 ^ (n - 1 - k))) % 256

\* bit pos of the packing of v into a field of the given length: the bytes of v
\* in the byte order, their bits least significant first
PackingBit(v, length, endian, pos) ==
    (ToBytesAt(v, (length + 7) \div 8, endian, pos \div 8) \div (2 ^ (pos % 8))) % 2

\* a buffer that holds the packing of v at bits start .. start + length - 1 and
\* ones in the other bits
PackAtBit(v, start, length, endian, x) ==
    IF start <= x /\ x < start + length
    THEN PackingBit(v, length, endian, x - start) ELSE 1

PackAt(v, start, length, endian) ==
    [b \in 1..((start + length + 7) \div 8) |->
        LET base == 8 * (b - 1)
        IN  PackAtBit(v, start, length, endian, base)
            + 2 * PackAtBit(v, start, length, endian, base + 1)
            + 4 * PackAtBit(v, start, length, endian, base + 2)
            + 8 * PackAtBit(v, start, length, endian, base + 3)
            + 16 * PackAtBit(v, start, length, endian, base + 4)
            + 32 * PackAtBit(v, start, length, endian, base + 5)
            + 64 * PackAtBit(v, start, length, endian, base + 6)
            + 128 * PackAtBit(v, start, length, endian, base + 7)]

PackValues == {0, 1, 240, 2748}

TypeBuffers ==
    {PackAt(2748, start, 12, endian) : start \in TypeStarts, endian \in Endians}
    \cup {PackAt(240, 0, 12, "big")}
    \cup {PackAt(2748, 0, 16, endian) : endian \in Endians}
    \cup {PackAt(v, 0, 1, "little") : v \in {0, 1}}

NextTypes ==
    \/ \E call \in TypeCalls : Add(call, MaxTypeFields)
    \/ \E data \in TypeBuffers : SetData(data)

SpecTypes == Init /\ [][NextTypes]_vars

(***************************************************************************)
(* Helpers of the properties.                                              *)
(***************************************************************************)
Positions == 1..Len(map_list)

\* the bit addresses a field covers, from its start and length alone
Covers(f, x) == f.start <= x /\ x < f.start + f.length

Overlap(f, g) == f.start < g.start + g.length /\ g.start < f.start + f.length

\* the names fill_unmapped hands out, numbered from 0
SyntheticNames ==
    <<"unmapped_000", "unmapped_001", "unmapped_002", "unmapped_003",
      "unmapped_004", "unmapped_005", "unmapped_006", "unmapped_007",
      "unmapped_008", "unmapped_009", "unmapped_010", "unmapped_011">>

\* the fields a step created: those of map_list' that are not in map_list
CreatedPositions == {i \in 1..Len(map_list') : map_list'[i].id > n_items}

\* a step that is a fill_unmapped call that returned
FillReturned == last'.op = "fill_unmapped" /\ err' = "none"

(***************************************************************************)
(* C1: after any sequence of add and fill_unmapped calls the field         *)
(* sequence is sorted by non-decreasing start, and fields of equal start   *)
(* stand in the order of their insertion.                                  *)
(***************************************************************************)
C1_SortedStable ==
    \A i, j \in Positions :
        i < j => /\ map_list[i].start <= map_list[j].start
                 /\ (map_list[i].start = map_list[j].start
                        => map_list[i].id < map_list[j].id)

\* three or more fields, two of equal start, one inserted out of address
\* order, and at least one of them synthetic
C1_Witness ==
    /\ Len(map_list) >= 3
    /\ unmapped_cnt > 0
    /\ \E i, j \in Positions : i < j /\ map_list[i].start = map_list[j].start
    /\ \E i, j \in Positions : i < j /\ map_list[i].id > map_list[j].id

(***************************************************************************)
(* C2: after fill_unmapped() on a non-empty container the fields cover     *)
(* every bit address from 0 to the end of the last original field, and up  *)
(* to end_addr when it is given and greater; and no synthetic field        *)
(* overlaps a field that existed before the call.                          *)
(***************************************************************************)
\* the addresses the call has to cover
FillTarget ==
    LET last_end == map_list[Len(map_list)].start + map_list[Len(map_list)].length - 1
    IN  IF last'.end_addr # NoEnd /\ last'.end_addr > last_end
        THEN last'.end_addr ELSE last_end

FillCovers ==
    \A x \in 0..FillTarget :
        \E i \in 1..Len(map_list') : Covers(map_list'[i], x)

\* the same coverage, tested where it can first break: the least address that
\* no field covers is 0 or the address behind the end of a field
FillCoversFromEnds ==
    \A x \in {0} \cup {End(map_list'[i]) + 1 : i \in 1..Len(map_list')} :
        x <= FillTarget => \E i \in 1..Len(map_list') : Covers(map_list'[i], x)

FillAvoidsOriginals ==
    \A i \in CreatedPositions : \A j \in Positions :
        ~Overlap(map_list'[i], map_list[j])

OriginalsDisjoint ==
    \A i, j \in Positions : i # j => ~Overlap(map_list[i], map_list[j])

\* the claim as stated
C2_Original ==
    [][FillReturned => (FillCovers /\ FillAvoidsOriginals)]_vars

\* the claim amended: the synthetic fields avoid the original ones when the
\* original fields do not overlap one another
C2_Amended ==
    [][FillReturned =>
        (FillCoversFromEnds /\ (OriginalsDisjoint => FillAvoidsOriginals))]_vars

\* a call with end_addr that has filled a leading, an inner and a trailing gap
\* between fields that do not overlap
C2_Witness ==
    /\ last.op = "fill_unmapped" /\ err = "none" /\ last.end_addr # NoEnd
    /\ unmapped_cnt >= 3
    /\ \A i, j \in Positions : i # j => ~Overlap(map_list[i], map_list[j])

(***************************************************************************)
(* C9: a synthetic field is named "unmapped_" and the container's counter  *)
(* in 3 digits; the counter starts at 0 and grows by one per synthetic     *)
(* field; within a call the numbers go to the leading gap, the inner gaps  *)
(* in ascending address order, then the trailing gap; no two synthetic     *)
(* fields of a container share a name.                                     *)
(***************************************************************************)
C9_Step ==
    IF last'.op = "fill_unmapped"
    THEN /\ unmapped_cnt' = unmapped_cnt + Cardinality(CreatedPositions)
         /\ \A i \in CreatedPositions :
                map_list'[i].name
                    = SyntheticNames[unmapped_cnt + (map_list'[i].id - n_items)]
         /\ \A i, j \in CreatedPositions :
                map_list'[i].id < map_list'[j].id
                    => map_list'[i].start < map_list'[j].start
    ELSE unmapped_cnt' = unmapped_cnt

C9_Unique ==
    \A i, j \in Positions :
        (i # j /\ \E k \in DOMAIN SyntheticNames : map_list[i].name = SyntheticNames[k])
            => map_list[i].name # map_list[j].name

HasField(name, start, end) ==
    \E i \in Positions :
        /\ map_list[i].name = name
        /\ map_list[i].start = start
        /\ map_list[i].start + map_list[i].length - 1 = end

C10_NameIndex ==
    /\ DOMAIN map_dict = {map_list[i].name : i \in Positions}
    /\ \A name \in DOMAIN map_dict :
           \E i \in Positions :
               /\ map_list[i].id = map_dict[name]
               /\ map_list[i].name = name
               /\ \A j \in Positions :
                      map_list[j].name = name => map_list[j].id <= map_list[i].id
    /\ Len(map_list) = n_items
    /\ {map_list[i].id : i \in Positions} = 1..n_items

\* a field displaced from the name index by a later field of the same name,
\* after an add that raised
C10_Witness ==
    /\ last.op = "add" /\ err # "none"
    /\ \E i \in Positions : map_dict[map_list[i].name] # map_list[i].id

(***************************************************************************)
(* The bits of a buffer, stated without the extraction loop.               *)
(***************************************************************************)
\* bit x of the buffer: bit x % 8 (0 the least significant) of byte x \div 8
BufferBit(data, x) == (data[(x \div 8) + 1] \div (2 ^ (x % 8))) % 2

\* bit j of a byte
ByteBit(byte, j) == (byte \div (2 ^ j)) % 2

\* the bytes that hold bits start .. start + length - 1 of the buffer, least
\* significant first, the last byte padded with zeros
PackedBit(data, start, length, pos) ==
    IF pos < length THEN BufferBit(data, start + pos) ELSE 0

PackedBits(data, start, length) ==
    [k \in 1..((length + 7) \div 8) |->
        LET base == 8 * (k - 1)
        IN  PackedBit(data, start, length, base)
            + 2 * PackedBit(data, start, length, base + 1)
            + 4 * PackedBit(data, start, length, base + 2)
            + 8 * PackedBit(data, start, length, base + 3)
            + 16 * PackedBit(data, start, length, base + 4)
            + 32 * PackedBit(data, start, length, base + 5)
            + 64 * PackedBit(data, start, length, base + 6)
            + 128 * PackedBit(data, start, length, base + 7)]

\* whether the buffer reaches the last bit of the field
Reaches(data, f) == Len(data) >= ((f.start + f.length - 1) \div 8) + 1

(***************************************************************************)
(* C6: set_data(buffer) on the container is not atomic.  If field k is the *)
(* first whose end lies beyond the buffer, the call fails there with       *)
(* BufferTooShortError, the fields before k hold the raw_value and value   *)
(* of the new buffer, and field k and the fields behind it are unchanged.  *)
(***************************************************************************)
\* position k is the first whose end lies beyond the buffer of the call
FirstBeyond(k) ==
    /\ k \in Positions
    /\ ~Reaches(last'.data, map_list[k])
    /\ \A i \in 1..(k - 1) : Reaches(last'.data, map_list[i])

\* the value of a raw or text field over a buffer
ExpectedValue(f, data) ==
    IF f.cls = "CharDataItem" THEN PyStr(PackedBits(data, f.start, f.length))
    ELSE PyBytes(PackedBits(data, f.start, f.length))

FailsAt(k) ==
    /\ err' = "BufferTooShortError"
    /\ last'.at = k
    /\ Len(map_list') = Len(map_list)
    /\ \A i \in 1..(k - 1) :
           /\ map_list'[i].raw_value
                  = PyBytes(PackedBits(last'.data, map_list[i].start, map_list[i].length))
           /\ map_list'[i].value = ExpectedValue(map_list[i], last'.data)
    /\ \A i \in k..Len(map_list) : map_list'[i] = map_list[i]

\* every text field before position k is ASCII in the buffer of the call
DecodesBefore(k) ==
    \A i \in 1..(k - 1) :
        map_list[i].cls = "CharDataItem" =>
            \A b \in 1..((map_list[i].length + 7) \div 8) :
                PackedBits(last'.data, map_list[i].start, map_list[i].length)[b] < 128

C7_UnsetIffNotInterpreted ==
    /\ \A i \in Positions :
           /\ ItemValue(map_list[i]).err = "UnsetDataError" <=> ~map_list[i].interpreted
           /\ ItemRawValue(map_list[i]).err = "UnsetDataError" <=> ~map_list[i].interpreted
    /\ \A name \in DOMAIN map_dict :
           get_value(Container, name).err = "UnsetDataError"
               <=> ~ItemById(map_list, map_dict[name]).interpreted

(***************************************************************************)
(* C3: replaying get_spec() through add_from_spec on a fresh container and *)
(* calling set_data with the same buffer yields the same ordered           *)
(* (name, value) sequence as the original container.                       *)
(***************************************************************************)
Replayed == add_from_spec(NewBinMap, get_spec(Container))

C4_RawValueBits ==
    \A i \in Positions :
        map_list[i].data # None =>
            LET f == map_list[i]
                raw == f.raw_value.s
            IN  /\ f.raw_value.t = "bytes"
                /\ Len(raw) = (f.length + 7) \div 8
                /\ \A k \in 0..(Len(raw) - 1) :
                       /\ raw[k + 1] \in 0..255
                       /\ \A j \in 0..7 :
                              ByteBit(raw[k + 1], j)
                                  = IF 8 * k + j < f.length
                                    THEN BufferBit(f.data.s, f.start + 8 * k + j)
                                    ELSE 0

\* a field that starts inside a byte, is longer than a byte and ends inside a
\* byte, extracted from a buffer whose bits behind the field are ones
C4_Witness ==
    \E i \in Positions :
        /\ map_list[i].data # None
        /\ map_list[i].start % 8 # 0
        /\ map_list[i].length > 8
        /\ map_list[i].length % 8 # 0
        /\ BufferBit(map_list[i].data.s, map_list[i].start + map_list[i].length) = 1
        /\ Len(map_list[i].raw_value.s) = 2

(***************************************************************************)
(* C5: decoding a UInt or Bool field is the inverse of bit-packing: when   *)
(* the bits of the field are the packing of an unsigned integer            *)
(* v < 2^length in the byte order of the field, value is v (for Bool,      *)
(* v # 0), for both byte orders and every length.                          *)
(***************************************************************************)
IsPackingOf(f, v) ==
    \A pos \in 0..(f.length - 1) :
        BufferBit(f.data.s, f.start + pos) = PackingBit(v, f.length, f.endian, pos)

C5_DecodeInvertsPacking ==
    \A i \in Positions :
        (map_list[i].cls \in {"UIntDataItem", "BoolDataItem"} /\ map_list[i].data # None) =>
            \A v \in PackValues :
                (v < 2 ^ map_list[i].length /\ IsPackingOf(map_list[i], v)) =>
                    map_list[i].value = IF map_list[i].cls = "UIntDataItem"
                                        THEN PyInt(v) ELSE PyBool(v # 0)

(***************************************************************************)
(* C8: in add the parameters of the registry are applied after those of    *)
(* the caller and overwrite them: a fixed-length tag gives the field the   *)
(* length of the registry, and ascii and utf8 give it the encoding of the  *)
(* registry, whatever the caller passed.                                   *)
(***************************************************************************)
RegistryLength ==
    [uint8 |-> 8, uint16 |-> 16, uint32 |-> 32, uint64 |-> 64, bool1 |-> 1, bool8 |-> 8]

RegistryEncoding == [ascii |-> "ascii", utf8 |-> "utf-8"]

C8_RegistryWins ==
    (last.op = "add" /\ err = "none") =>
        LET f == ItemById(map_list, n_items)
            dt == last.call["dt"]
        IN  /\ dt \in DOMAIN RegistryLength =>
                   (f.length = RegistryLength[dt] /\ f.args["length"] = RegistryLength[dt])
            /\ dt \in DOMAIN RegistryEncoding =>
                   (f.encoding = RegistryEncoding[dt]
                        /\ f.args["encoding"] = RegistryEncoding[dt])

\* an add of a fixed-length tag that passed another length
C8_Witness ==
    /\ last.op = "add" /\ err = "none"
    /\ last.call["dt"] = "uint16"
    /\ "length" \in DOMAIN last.call
    /\ last.call["length"] # 16
    /\ Len(map_list) = 1

====
